---- MODULE Spec2Model ----
(***************************************************************************)
(* Model of utils::Logger (src/logger.hpp): the mutex-guarded record queue *)
(* with its drop-oldest overload policy, lazy worker start-up through      *)
(* std::call_once, the worker loop (condition wait, batch drain, dispatch  *)
(* to the sinks, flush, final drain), the sink registry, the severity      *)
(* filter and the destructor's shutdown sequence.                          *)
(*                                                                         *)
(* Threads: NumProducers producer threads calling Logger::log, one         *)
(* application thread calling add_sink / clear_sinks / set_level /         *)
(* set_max_queue_size, the worker thread, and the thread that runs         *)
(* ~Logger.  Every step below is one atomic region of the code: a region   *)
(* executed under queue_mutex_ between two points where other threads can  *)
(* observe it, or one access to an atomic / unsynchronised field.          *)
(***************************************************************************)
EXTENDS Integers, Sequences, FiniteSets, TLC

(* ---------------------------- bounds ----------------------------------- *)
NumProducers == 2      \* producer threads
MaxEmits == 2          \* emit calls (Logger::log) over all producers
MaxAppOps == 2         \* configuration / registry calls of the application thread
MaxWrites == 4         \* calls of FileSink::write and FileSink::flush
MaxTemplateLen == 4    \* characters of a format string
MaxArgs == 2           \* arguments of a call of Logger::log
MaxScopes == 2         \* ScopeLogger objects constructed over all producers

(* ----------------------- program constants ----------------------------- *)
DEBUG == 0
INFO == 1
WARN == 2
ERROR == 3
FATAL == 4
BatchCap == 100            \* batch.size() < 100
DefaultMaxQueue == 10000   \* max_queue_size_(10000)

LogLevel == {DEBUG, INFO, WARN, ERROR, FATAL}

(* inputs the threads draw from *)
EmitLevels == {DEBUG, ERROR}      \* levels passed to Logger::log
SetLevels == {WARN}               \* arguments of set_level
QueueSizes == {0, 1, 2}           \* arguments of set_max_queue_size
SinkOutcomes == {"ok", "std", "other"}  \* a sink call returns, throws a
                                        \* std::exception, or throws anything else

Producers == 1..NumProducers
App == NumProducers + 1       \* the application thread
Threads == {App} \cup Producers

VARIABLES
    sinks_,            \* std::vector<unique_ptr<LogSink>>: sequence of sink ids
    min_level_,        \* LogLevel
    log_queue_,        \* std::queue<LogEntry>
    queue_mutex_,      \* "free" or "worker" (producers hold it within one step)
    running_,          \* std::atomic<bool>
    initialized_,      \* std::atomic<bool>
    init_flag_,        \* std::once_flag: "idle", "active", "done"
    max_queue_size_,   \* size_t
    pc,                \* position of each producer / the application thread
    cur,               \* the LogEntry a producer is carrying into log_entry
    app_op,            \* registry mutation the application thread is performing
    worker_pc,         \* position of the worker thread ("none" before start)
    batch,             \* worker_loop's local vector<LogEntry>
    bi,                \* index of the batch entry being dispatched
    view,              \* the range [begin, end) of sinks_ the current loop iterates
    si,                \* index in view of the sink being called
    dtor_pc,           \* position of ~Logger
    proc,              \* "running", "terminated" (std::terminate), "crashed"
    \* history variables (not program state)
    emitLog,           \* one entry per Logger::log call: who, which, level, min seen
    pushed,            \* every LogEntry emplaced, in emplace order
    evicted,           \* entries popped by the drop-oldest branch
    writes,            \* writes[s]: entries sink s was asked to write, in order
    regAt,             \* regAt[s]: Len(pushed) when sink s entered the registry
    workersCreated,    \* number of std::thread objects constructed
    runStart,          \* Len(pushed) when the current undrained run began
    runOK,             \* the run began on an empty queue with today's capacity
    ubPop,             \* pop() was called on an empty queue (undefined behaviour)
    appOps,            \* calls made by the application thread
    events,            \* sink calls of the worker's current iteration, in order
    taken,             \* entries the worker removed from the queue, in order
    \* FileSink (one sink object and the directory it writes to)
    file_,             \* std::ofstream file_: TRUE when file_.is_open()
    current_size_,     \* size_t current_size_
    max_file_size_,    \* size_t max_file_size_
    max_files_,        \* int max_files_
    disk,              \* disk[0]: the file at filename_, disk[i]: filename_.i
    newline,           \* bytes a text-mode stream stores for "\n" on this build
    \* history variables of the FileSink
    written,           \* every line that reached the live file, in order
    rotations,         \* calls of rotate_file
    fs_calls,          \* calls of FileSink::write and FileSink::flush
    fs_last,           \* the last call: operation, line, state it found, outcome
    \* one call of Logger::log that renders its message
    fmt_format,        \* const std::string& format
    fmt_args,          \* Args&&... args
    fmt_alloc,         \* a std::string allocation fails during the call
    fmt_state,         \* "none", "call", "entry" (the LogEntry is built)
    fmt_message,       \* LogEntry::message
    fmt_raised,        \* an exception left Logger::log
    \* ScopeLogger
    scopes,            \* scopes[p]: the live ScopeLogger objects of p, outermost first
    clock,             \* std::chrono::steady_clock, in milliseconds
    scopeLog           \* history: the calls made by ScopeLogger objects, in order

vars == << sinks_, min_level_, log_queue_, queue_mutex_, running_, initialized_,
           init_flag_, max_queue_size_, pc, cur, app_op, worker_pc, batch, bi,
           view, si, dtor_pc, proc, emitLog, pushed, evicted, writes,
           regAt, workersCreated, runStart, runOK, ubPop, appOps, events,
           taken, file_, current_size_, max_file_size_, max_files_, disk, newline,
           written, rotations, fs_calls, fs_last,
           fmt_format, fmt_args, fmt_alloc, fmt_state, fmt_message, fmt_raised,
           scopes, clock, scopeLog >>

progVars == << sinks_, min_level_, log_queue_, queue_mutex_, running_,
               initialized_, init_flag_, max_queue_size_ >>
workerVars == << worker_pc, batch, bi, view, si >>
histVars == << emitLog, pushed, evicted, writes, regAt,
               workersCreated, runStart, runOK, ubPop, appOps >>
dispVars == << events, taken >>
sinkVars == << file_, current_size_, max_file_size_, max_files_, disk, newline,
               written, rotations, fs_calls, fs_last >>
fmtVars == << fmt_format, fmt_args, fmt_alloc, fmt_state, fmt_message, fmt_raised >>
scopeVars == << scopes, clock, scopeLog >>
unitVars == << sinkVars, fmtVars, scopeVars >>
loggerVars == << progVars, workerVars, pc, cur, app_op, dtor_pc, proc, histVars,
                dispVars >>

NoEntry == [p |-> 0, n |-> 0, lvl |-> DEBUG]

Range(s) == {s[i] : i \in 1..Len(s)}
Min(a, b) == IF a < b THEN a ELSE b

(* Logger::Logger() *)
LoggerInit ==
    /\ sinks_ = << >>
    /\ min_level_ = DEBUG
    /\ log_queue_ = << >>
    /\ queue_mutex_ = "free"
    /\ running_ = FALSE
    /\ initialized_ = FALSE
    /\ init_flag_ = "idle"
    /\ max_queue_size_ = DefaultMaxQueue
    /\ pc = [t \in Threads |-> "idle"]
    /\ cur = [p \in Producers |-> NoEntry]
    /\ app_op = "none"
    /\ worker_pc = "none"
    /\ batch = << >>
    /\ bi = 0
    /\ view = << >>
    /\ si = 0
    /\ dtor_pc = "idle"
    /\ proc = "running"
    /\ emitLog = {}
    /\ pushed = << >>
    /\ evicted = {}
    /\ writes = << >>
    /\ regAt = << >>
    /\ workersCreated = 0
    /\ runStart = 0
    /\ runOK = TRUE
    /\ ubPop = FALSE
    /\ appOps = 0
    /\ events = << >>
    /\ taken = << >>

(* The Logger object can be used: the process is alive and ~Logger has not
   returned. *)
Alive == proc = "running" /\ dtor_pc # "done"

(* condition_variable::notify_one / notify_all: the worker is the only
   thread that ever waits on queue_condition_. *)
Notified(wpc) == IF wpc = "waiting" THEN "woken" ELSE wpc

(* ------------------------- Logger::log --------------------------------- *)

\* the filter with the comparison off by one
FilteredInclusive(level, minLevel) == level <= minLevel

(* `if (level < min_level_) return;` *)
Filtered(level, minLevel) == level < minLevel

(* where a thread continues when ensure_initialized returns *)
AfterInit(t) == IF t = App THEN "mutating" ELSE "push"

\* a caller that goes on without looking at initialized_
EnsureInitializedSkipped(t) == AfterInit(t)

(* ensure_initialized: `if (!initialized_.load(std::memory_order_acquire))`;
   the position of the caller after the test *)
EnsureInitialized(t) == IF initialized_ THEN AfterInit(t) ELSE "call_once"

(* the number of p's next call of Logger::log *)
EmitNo(p) == Cardinality({e \in emitLog : e.p = p}) + 1

(* Logger::log up to the critical section of log_entry: the severity filter,
   the LogEntry, and the test of initialized_ in ensure_initialized.
   (min_level_ is a plain field read without a lock; the read sees the value
   of the latest set_level that happened before it.) *)
LogCall(p, lvl) ==
    /\ Alive /\ pc[p] = "idle"
    /\ LET n == EmitNo(p) IN
       /\ emitLog' = emitLog \cup
                       {[p |-> p, n |-> n, lvl |-> lvl, min |-> min_level_]}
       /\ IF Filtered(lvl, min_level_)
          THEN UNCHANGED << pc, cur >>
          ELSE /\ pc' = [pc EXCEPT ![p] = EnsureInitialized(p)]
               /\ cur' = [cur EXCEPT ![p] = [p |-> p, n |-> n, lvl |-> lvl]]
    /\ UNCHANGED << progVars, workerVars, app_op, dtor_pc, proc, pushed,
                    evicted, writes, regAt, workersCreated, runStart, runOK,
                    ubPop, appOps >>
    /\ UNCHANGED dispVars

(* debug / info / warn / error / fatal called by a producer *)
Log(p, lvl) ==
    /\ Cardinality(emitLog) < MaxEmits
    /\ LogCall(p, lvl)
    /\ UNCHANGED unitVars

(* ------------------- Logger::ensure_initialized ------------------------ *)

\* a test of the flag that lets a second caller in while the first still runs
OnceAdmitsUnlessDone(flag) == flag # "done"

(* std::call_once runs the callable for the caller that finds the flag unused *)
OnceAdmits(flag) == flag = "idle"

(* std::call_once(init_flag_, ...): the first caller runs the lambda
   (running_ = true; worker_thread_ = std::thread(...)), a caller that
   arrives while it runs blocks, a caller that arrives after returns. *)
CallOnce(t) ==
    /\ Alive /\ pc[t] = "call_once"
    /\ \/ /\ OnceAdmits(init_flag_)
          /\ init_flag_' = "active"
          /\ running_' = TRUE
          /\ worker_pc' = "loop_test"
          /\ workersCreated' = workersCreated + 1
          /\ pc' = [pc EXCEPT ![t] = "once_body"]
          /\ UNCHANGED << batch, bi, view, si >>
       \/ /\ ~OnceAdmits(init_flag_) /\ init_flag_ = "done"
          /\ pc' = [pc EXCEPT ![t] = AfterInit(t)]
          /\ UNCHANGED << init_flag_, running_, workerVars, workersCreated >>
    /\ UNCHANGED << sinks_, min_level_, log_queue_, queue_mutex_, initialized_,
                    max_queue_size_, cur, app_op, dtor_pc, proc, emitLog,
                    pushed, evicted, writes, regAt, runStart, runOK, ubPop,
                    appOps >>
    /\ UNCHANGED << unitVars, dispVars >>

(* `initialized_.store(true, std::memory_order_release);` and the return of
   call_once *)
OnceReturn(t) ==
    /\ Alive /\ pc[t] = "once_body"
    /\ initialized_' = TRUE
    /\ init_flag_' = "done"
    /\ pc' = [pc EXCEPT ![t] = AfterInit(t)]
    /\ UNCHANGED << sinks_, min_level_, log_queue_, queue_mutex_, running_,
                    max_queue_size_, workerVars, cur, app_op, dtor_pc, proc,
                    histVars >>
    /\ UNCHANGED << unitVars, dispVars >>

(* ----------------------- Logger::log_entry ----------------------------- *)

\* an overload policy that drops the new entry instead of the oldest
PushEntryDropNewest(q, e, max) == IF Len(q) >= max THEN q ELSE Append(q, e)

(* the queue after `if (size() >= max_queue_size_) pop(); emplace(entry);`
   on a queue the pop is defined for *)
PushEntry(q, e, max) == Append(IF Len(q) >= max THEN Tail(q) ELSE q, e)

(* log_entry after ensure_initialized: the critical section under the
   lock_guard, then `queue_condition_.notify_one();`.
   With max_queue_size_ = 0 and an empty queue the code calls pop() on an
   empty std::queue, which is undefined: the process may crash, the pop may
   have no effect, or the container's size wraps so that the emplaced entry
   is not seen. *)
LogEntry(p) ==
    /\ Alive /\ pc[p] = "push" /\ queue_mutex_ = "free"
    /\ LET e == cur[p]
           full == Len(log_queue_) >= max_queue_size_
       IN IF full /\ log_queue_ = << >>
          THEN \/ /\ proc' = "crashed"
                  /\ UNCHANGED << log_queue_, pc, cur, worker_pc, pushed,
                                  evicted, runStart, runOK, ubPop >>
               \/ /\ log_queue_' \in {<< e >>, << >>}
                  /\ ubPop' = TRUE
                  /\ pushed' = Append(pushed, e)
                  /\ runOK' = FALSE
                  /\ pc' = [pc EXCEPT ![p] = "idle"]
                  /\ cur' = [cur EXCEPT ![p] = NoEntry]
                  /\ worker_pc' = Notified(worker_pc)
                  /\ UNCHANGED << proc, evicted, runStart >>
          ELSE /\ log_queue_' = PushEntry(log_queue_, e, max_queue_size_)
               /\ evicted' = IF full THEN evicted \cup {Head(log_queue_)}
                                      ELSE evicted
               /\ pushed' = Append(pushed, e)
               /\ pc' = [pc EXCEPT ![p] = "idle"]
               /\ cur' = [cur EXCEPT ![p] = NoEntry]
               /\ worker_pc' = Notified(worker_pc)
               /\ UNCHANGED << proc, runStart, runOK, ubPop >>
    /\ UNCHANGED << sinks_, min_level_, queue_mutex_, running_, initialized_,
                    init_flag_, max_queue_size_, batch, bi, view, si, app_op,
                    dtor_pc, emitLog, writes, regAt, workersCreated, appOps >>
    /\ UNCHANGED << unitVars, dispVars >>

(* --------------- the application thread's calls ------------------------ *)

(* Logger::add_sink / Logger::clear_sinks: the call and the test of
   initialized_ in ensure_initialized *)
SinkCall(op) ==
    /\ Alive /\ pc[App] = "idle" /\ appOps < MaxAppOps
    /\ pc' = [pc EXCEPT ![App] = EnsureInitialized(App)]
    /\ app_op' = op
    /\ appOps' = appOps + 1
    /\ UNCHANGED << progVars, workerVars, cur, dtor_pc, proc, emitLog, pushed,
                    evicted, writes, regAt, workersCreated, runStart, runOK,
                    ubPop >>
    /\ UNCHANGED << unitVars, dispVars >>

AddSink == SinkCall("add")
ClearSinks == SinkCall("clear")

(* `sinks_.push_back(std::move(sink));` / `sinks_.clear();` completes.  The
   thread is inside the vector operation from the return of
   ensure_initialized (pc = "mutating") until this step. *)
MutateSinks ==
    /\ Alive /\ pc[App] = "mutating"
    /\ IF app_op = "add"
       THEN /\ sinks_' = Append(sinks_, Len(writes) + 1)
            /\ writes' = Append(writes, << >>)
            /\ regAt' = Append(regAt, Len(pushed))
       ELSE /\ sinks_' = << >>
            /\ UNCHANGED << writes, regAt >>
    /\ pc' = [pc EXCEPT ![App] = "idle"]
    /\ app_op' = "none"
    /\ UNCHANGED << min_level_, log_queue_, queue_mutex_, running_,
                    initialized_, init_flag_, max_queue_size_, workerVars, cur,
                    dtor_pc, proc, emitLog, pushed, evicted, workersCreated,
                    runStart, runOK, ubPop, appOps >>
    /\ UNCHANGED << unitVars, dispVars >>

(* Logger::set_level *)
SetLevel(level) ==
    /\ Alive /\ pc[App] = "idle" /\ appOps < MaxAppOps
    /\ min_level_' = level
    /\ appOps' = appOps + 1
    /\ UNCHANGED << sinks_, log_queue_, queue_mutex_, running_, initialized_,
                    init_flag_, max_queue_size_, pc, cur, app_op, workerVars,
                    dtor_pc, proc, emitLog, pushed, evicted, writes, regAt,
                    workersCreated, runStart, runOK, ubPop >>
    /\ UNCHANGED << unitVars, dispVars >>

(* Logger::set_max_queue_size *)
SetMaxQueueSize(size) ==
    /\ Alive /\ pc[App] = "idle" /\ appOps < MaxAppOps
    /\ max_queue_size_' = size
    /\ appOps' = appOps + 1
    /\ runStart' = Len(pushed)
    /\ runOK' = (log_queue_ = << >>)
    /\ UNCHANGED << sinks_, min_level_, log_queue_, queue_mutex_, running_,
                    initialized_, init_flag_, pc, cur, app_op, workerVars,
                    dtor_pc, proc, emitLog, pushed, evicted, writes, regAt,
                    workersCreated, ubPop >>
    /\ UNCHANGED << unitVars, dispVars >>

(* -------------------------- Logger::worker_loop ------------------------ *)

ProcUp == proc = "running"

(* one call of a sink by the worker *)
SinkEvent(op, sink, entry) == [op |-> op, sink |-> sink, entry |-> entry]

(* The registry was changed, or is being changed, while the worker iterates
   the range it took from it: the iterators of the running loop are invalid
   and the next access through them is undefined. *)
Raced == pc[App] = "mutating" \/ view # sinks_

(* `while (running_.load())` *)
WorkerLoopTest ==
    /\ ProcUp /\ worker_pc = "loop_test"
    /\ worker_pc' = IF running_ THEN "lock" ELSE "final_lock"
    /\ UNCHANGED << progVars, batch, bi, view, si, pc, cur, app_op, dtor_pc,
                    proc, histVars >>
    /\ events' = << >>
    /\ UNCHANGED << unitVars, taken >>

(* the predicate of queue_condition_.wait *)
WaitPredicate == log_queue_ # << >> \/ ~running_

\* a batch filled from the back of the queue
TakeBatchReversed(q) ==
    [i \in 1..Min(Len(q), BatchCap) |-> q[Min(Len(q), BatchCap) + 1 - i]]

(* `while (!log_queue_.empty() && batch.size() < 100)`: the entries moved
   into the batch, and what stays queued *)
TakeBatch(q) == SubSeq(q, 1, Min(Len(q), BatchCap))
AfterBatch(q) == SubSeq(q, Min(Len(q), BatchCap) + 1, Len(q))

(* With the mutex held, condition_variable::wait(lock, pred) tests the
   predicate (`while (!pred()) wait(lock);`).  When it holds the batch is
   filled and `lock.unlock();` runs; when it does not, the worker is about
   to call wait(lock), still holding the mutex. *)
WaitOrDrain ==
    IF WaitPredicate
    THEN /\ batch' = TakeBatch(log_queue_)
         /\ log_queue_' = AfterBatch(log_queue_)
         /\ queue_mutex_' = "free"
         /\ worker_pc' = "entry"
         /\ bi' = 1
         /\ runStart' = Len(pushed)
         /\ runOK' = (AfterBatch(log_queue_) = << >>)
         /\ taken' = taken \o TakeBatch(log_queue_)
    ELSE /\ queue_mutex_' = "worker"
         /\ worker_pc' = "wait_enter"
         /\ UNCHANGED << batch, log_queue_, bi, runStart, runOK, taken >>

(* `std::unique_lock<std::mutex> lock(queue_mutex_);` and the first test of
   the wait predicate *)
WorkerLock ==
    /\ ProcUp /\ worker_pc = "lock" /\ queue_mutex_ = "free"
    /\ WaitOrDrain
    /\ UNCHANGED << sinks_, min_level_, running_, initialized_, init_flag_,
                    max_queue_size_, view, si, pc, cur, app_op, dtor_pc, proc,
                    emitLog, pushed, evicted, writes, regAt, workersCreated,
                    ubPop, appOps >>
    /\ UNCHANGED << unitVars, events >>

(* wait(lock): the mutex is released and the thread blocks, atomically *)
WorkerWaitEnter ==
    /\ ProcUp /\ worker_pc = "wait_enter"
    /\ queue_mutex_' = "free"
    /\ worker_pc' = "waiting"
    /\ UNCHANGED << sinks_, min_level_, log_queue_, running_, initialized_,
                    init_flag_, max_queue_size_, batch, bi, view, si, pc, cur,
                    app_op, dtor_pc, proc, histVars >>
    /\ UNCHANGED << unitVars, dispVars >>

(* a wait may return without a notification *)
SpuriousWakeup ==
    /\ ProcUp /\ worker_pc = "waiting"
    /\ worker_pc' = "woken"
    /\ UNCHANGED << progVars, batch, bi, view, si, pc, cur, app_op, dtor_pc,
                    proc, histVars >>
    /\ UNCHANGED << unitVars, dispVars >>

(* wait(lock) returns: the mutex is re-acquired and the predicate re-tested *)
WorkerWake ==
    /\ ProcUp /\ worker_pc = "woken" /\ queue_mutex_ = "free"
    /\ WaitOrDrain
    /\ UNCHANGED << sinks_, min_level_, running_, initialized_, init_flag_,
                    max_queue_size_, view, si, pc, cur, app_op, dtor_pc, proc,
                    emitLog, pushed, evicted, writes, regAt, workersCreated,
                    ubPop, appOps >>
    /\ UNCHANGED << unitVars, events >>

(* Head of `for (const auto& entry : batch)`: the next entry starts
   `for (auto& sink : sinks_)`, whose range is taken from sinks_ here; after
   the last entry the flush loop takes its range. *)
WorkerEntry ==
    /\ ProcUp /\ worker_pc = "entry"
    /\ IF bi <= Len(batch)
       THEN IF sinks_ = << >>
            THEN /\ bi' = bi + 1
                 /\ UNCHANGED << worker_pc, si, batch, view >>
            ELSE /\ worker_pc' = "write"
                 /\ view' = sinks_
                 /\ si' = 1
                 /\ UNCHANGED << bi, batch >>
       ELSE IF sinks_ = << >>
            THEN /\ worker_pc' = "loop_test"
                 /\ batch' = << >>
                 /\ bi' = 0
                 /\ UNCHANGED << si, view >>
            ELSE /\ worker_pc' = "flush"
                 /\ view' = sinks_
                 /\ si' = 1
                 /\ UNCHANGED << bi, batch >>
    /\ UNCHANGED << progVars, pc, cur, app_op, dtor_pc, proc, histVars >>
    /\ UNCHANGED << unitVars, dispVars >>

(* `catch (const std::exception& e)` of the batch loop and of the flush loop *)
BatchCatches(o) == o = "std"

(* `sink->write(entry);` in the batch loop, with its catch clause *)
WorkerWrite ==
    /\ ProcUp /\ worker_pc = "write"
    /\ \/ /\ Raced
          /\ proc' = "crashed"
          /\ UNCHANGED << workerVars, writes, events >>
       \/ \E o \in SinkOutcomes :
            /\ writes' = [writes EXCEPT ![view[si]] = Append(@, batch[bi])]
            /\ events' = Append(events, SinkEvent("write", view[si], batch[bi]))
            /\ IF o = "ok" \/ BatchCatches(o)
               THEN /\ IF si < Len(view)
                       THEN /\ si' = si + 1
                            /\ UNCHANGED << worker_pc, bi, view >>
                       ELSE /\ worker_pc' = "entry"
                            /\ bi' = bi + 1
                            /\ si' = 0
                            /\ view' = << >>
                    /\ UNCHANGED << proc, batch >>
               ELSE /\ proc' = "terminated"
                    /\ UNCHANGED workerVars
    /\ UNCHANGED << progVars, pc, cur, app_op, dtor_pc, emitLog, pushed,
                    evicted, regAt, workersCreated, runStart, runOK, ubPop,
                    appOps >>
    /\ UNCHANGED << unitVars, taken >>

(* `sink->flush();` after the batch, with its catch clause *)
WorkerFlush ==
    /\ ProcUp /\ worker_pc = "flush"
    /\ \/ /\ Raced
          /\ proc' = "crashed"
          /\ UNCHANGED << workerVars, events >>
       \/ \E o \in SinkOutcomes :
            /\ events' = Append(events, SinkEvent("flush", view[si], NoEntry))
            /\ IF o = "ok" \/ BatchCatches(o)
               THEN /\ IF si < Len(view)
                       THEN /\ si' = si + 1
                            /\ UNCHANGED << worker_pc, bi, view, batch >>
                       ELSE /\ worker_pc' = "loop_test"
                            /\ batch' = << >>
                            /\ bi' = 0
                            /\ si' = 0
                            /\ view' = << >>
                    /\ UNCHANGED proc
               ELSE /\ proc' = "terminated"
                    /\ UNCHANGED workerVars
    /\ UNCHANGED << progVars, pc, cur, app_op, dtor_pc, histVars >>
    /\ UNCHANGED << unitVars, taken >>

(* `std::lock_guard<std::mutex> lock(queue_mutex_);` before the final drain *)
WorkerFinalLock ==
    /\ ProcUp /\ worker_pc = "final_lock" /\ queue_mutex_ = "free"
    /\ queue_mutex_' = "worker"
    /\ worker_pc' = "final_head"
    /\ UNCHANGED << sinks_, min_level_, log_queue_, running_, initialized_,
                    init_flag_, max_queue_size_, batch, bi, view, si, pc, cur,
                    app_op, dtor_pc, proc, histVars >>
    /\ UNCHANGED << unitVars, dispVars >>

(* `while (!log_queue_.empty())`: the front entry starts the loop over
   sinks_; on an empty queue the lock_guard is released and the thread ends *)
WorkerFinalHead ==
    /\ ProcUp /\ worker_pc = "final_head"
    /\ IF log_queue_ = << >>
       THEN /\ queue_mutex_' = "free"
            /\ worker_pc' = "done"
            /\ UNCHANGED << log_queue_, view, si, runStart, runOK, taken >>
       ELSE /\ IF sinks_ = << >>
               THEN /\ log_queue_' = Tail(log_queue_)
                    /\ taken' = Append(taken, Head(log_queue_))
                    /\ runStart' = Len(pushed)
                    /\ runOK' = (Tail(log_queue_) = << >>)
                    /\ UNCHANGED << worker_pc, si, view >>
               ELSE /\ worker_pc' = "final_write"
                    /\ view' = sinks_
                    /\ si' = 1
                    /\ UNCHANGED << log_queue_, runStart, runOK, taken >>
            /\ UNCHANGED queue_mutex_
    /\ UNCHANGED << sinks_, min_level_, running_, initialized_, init_flag_,
                    max_queue_size_, batch, bi, pc, cur, app_op, dtor_pc, proc,
                    emitLog, pushed, evicted, writes, regAt, workersCreated,
                    ubPop, appOps >>
    /\ UNCHANGED << unitVars, events >>

(* the end of one sink's try block in the final drain: the next sink, or
   `log_queue_.pop();` after the last *)
FinalAdvance ==
    IF si < Len(view)
    THEN /\ si' = si + 1
         /\ worker_pc' = "final_write"
         /\ UNCHANGED << view, log_queue_, runStart, runOK, taken >>
    ELSE /\ worker_pc' = "final_head"
         /\ si' = 0
         /\ view' = << >>
         /\ log_queue_' = Tail(log_queue_)
         /\ taken' = Append(taken, Head(log_queue_))
         /\ runStart' = Len(pushed)
         /\ runOK' = (Tail(log_queue_) = << >>)

(* `sink->write(entry);` in the final drain; `catch (...)` takes every
   exception and skips the sink's flush *)
WorkerFinalWrite ==
    /\ ProcUp /\ worker_pc = "final_write"
    /\ \/ /\ Raced
          /\ proc' = "crashed"
          /\ UNCHANGED << worker_pc, view, si, log_queue_, runStart, runOK,
                          writes, taken >>
       \/ \E o \in SinkOutcomes :
            /\ writes' = [writes EXCEPT ![view[si]] = Append(@, Head(log_queue_))]
            /\ IF o = "ok"
               THEN /\ worker_pc' = "final_flush"
                    /\ UNCHANGED << view, si, log_queue_, runStart, runOK,
                                    taken >>
               ELSE FinalAdvance
            /\ UNCHANGED proc
    /\ UNCHANGED << sinks_, min_level_, queue_mutex_, running_, initialized_,
                    init_flag_, max_queue_size_, batch, bi, pc, cur, app_op,
                    dtor_pc, emitLog, pushed, evicted, regAt, workersCreated,
                    ubPop, appOps >>
    /\ UNCHANGED << unitVars, events >>

(* `sink->flush();` in the final drain; whether it returns or throws, the
   loop goes on *)
WorkerFinalFlush ==
    /\ ProcUp /\ worker_pc = "final_flush"
    /\ \/ /\ Raced
          /\ proc' = "crashed"
          /\ UNCHANGED << worker_pc, view, si, log_queue_, runStart, runOK,
                          taken >>
       \/ /\ FinalAdvance
          /\ UNCHANGED proc
    /\ UNCHANGED << sinks_, min_level_, queue_mutex_, running_, initialized_,
                    init_flag_, max_queue_size_, batch, bi, pc, cur, app_op,
                    dtor_pc, emitLog, pushed, evicted, writes, regAt,
                    workersCreated, ubPop, appOps >>
    /\ UNCHANGED << unitVars, events >>

(* ----------------------------- Logger::~Logger ------------------------- *)

(* `if (initialized_.load()) { running_.store(false);` *)
DtorStore ==
    /\ ProcUp /\ dtor_pc = "idle"
    /\ IF initialized_
       THEN /\ running_' = FALSE
            /\ dtor_pc' = "notify"
       ELSE /\ dtor_pc' = "done"
            /\ UNCHANGED running_
    /\ UNCHANGED << sinks_, min_level_, log_queue_, queue_mutex_, initialized_,
                    init_flag_, max_queue_size_, workerVars, pc, cur, app_op,
                    proc, histVars >>
    /\ UNCHANGED << unitVars, dispVars >>

(* `queue_condition_.notify_all();` *)
DtorNotify ==
    /\ ProcUp /\ dtor_pc = "notify"
    /\ worker_pc' = Notified(worker_pc)
    /\ dtor_pc' = "join"
    /\ UNCHANGED << progVars, batch, bi, view, si, pc, cur, app_op, proc,
                    histVars >>
    /\ UNCHANGED << unitVars, dispVars >>

(* `worker_thread_.join();` returns when the worker thread has ended *)
DtorJoin ==
    /\ ProcUp /\ dtor_pc = "join" /\ worker_pc = "done"
    /\ dtor_pc' = "done"
    /\ UNCHANGED << progVars, workerVars, pc, cur, app_op, proc, histVars >>
    /\ UNCHANGED << unitVars, dispVars >>

(* ------------------------------ ScopeLogger ---------------------------- *)
(* The ScopeLogger objects of a producer are automatic variables: they are *)
(* destroyed in the reverse order of their construction, so scopes[p] is a *)
(* stack.  A scope is its number, level_ and start_time_.  Every reading   *)
(* of steady_clock is one millisecond later than the reading before it.    *)

(* no ScopeLogger has been constructed *)
NoScope ==
    /\ scopes = [p \in Producers |-> << >>]
    /\ clock = 0
    /\ scopeLog = << >>

ScopesMade == Cardinality({i \in 1..Len(scopeLog) : scopeLog[i].kind = "enter"})

(* the call a ScopeLogger makes: which scope, "enter" or "exit", the number
   of the emit call, its level, min_level_ at the call, the clock reading
   and the milliseconds the message reports *)
ScopeEvent(p, id, kind, lvl, t, ms) ==
    [p |-> p, id |-> id, kind |-> kind, n |-> EmitNo(p), lvl |-> lvl,
     min |-> min_level_, t |-> t, ms |-> ms]

\* a duration measured from the epoch of the clock
ElapsedSinceEpoch(now, start) == now

(* `duration_cast<milliseconds>(end_time - start_time_)` *)
Elapsed(now, start) == now - start

(* ScopeLogger::ScopeLogger: start_time_(steady_clock::now()), level_(level),
   then the switch over level_ calls debug/info/warn/error/fatal with
   "-> {} start" and scope_name_ *)
ScopeEnter(p, lvl) ==
    /\ ScopesMade < MaxScopes
    /\ clock' = clock + 1
    /\ scopes' = [scopes EXCEPT ![p] =
                     Append(@, [id |-> ScopesMade + 1, level_ |-> lvl,
                                start_time_ |-> clock + 1])]
    /\ scopeLog' = Append(scopeLog,
                          ScopeEvent(p, ScopesMade + 1, "enter", lvl,
                                     clock + 1, 0))
    /\ LogCall(p, lvl)
    /\ UNCHANGED << sinkVars, fmtVars >>

(* ScopeLogger::~ScopeLogger of the innermost scope of p: end_time, the
   duration since its own start_time_, then the switch over level_ calls
   the same function with "<- {} done ({}ms)" *)
ScopeExit(p) ==
    /\ scopes[p] # << >>
    /\ LET s == scopes[p][Len(scopes[p])] IN
       /\ clock' = clock + 1
       /\ scopeLog' = Append(scopeLog,
                             ScopeEvent(p, s.id, "exit", s.level_, clock + 1,
                                        Elapsed(clock + 1, s.start_time_)))
       /\ scopes' = [scopes EXCEPT ![p] = SubSeq(@, 1, Len(@) - 1)]
       /\ LogCall(p, s.level_)
    /\ UNCHANGED << sinkVars, fmtVars >>

(* --------------------- Logger::log: the message ------------------------ *)
(* A string is the sequence of its characters.  An argument is what its    *)
(* operator<< writes to the stream and how that call ends: it returns, or  *)
(* it throws a std::exception or something else after writing the text.    *)

Chars == {"a", "{", "}"}
FormatErrorMark == "[FORMAT_ERROR]"
LogErrorMark == "[LOG_ERROR] "

RECURSIVE SeqsUpTo(_, _)
SeqsUpTo(S, n) ==
    IF n = 0 THEN {<< >>}
    ELSE LET shorter == SeqsUpTo(S, n - 1)
         IN shorter \cup {Append(s, x) : s \in shorter, x \in S}

Values == { [text |-> << "v" >>, throws |-> "none"],
            [text |-> << "{", "}" >>, throws |-> "none"],
            [text |-> << >>, throws |-> "std"],
            [text |-> << "w" >>, throws |-> "other"] }
Templates == SeqsUpTo(Chars, MaxTemplateLen)
ArgLists == SeqsUpTo(Values, MaxArgs)

(* no call of Logger::log is being rendered *)
NoFormat ==
    /\ fmt_format = << >>
    /\ fmt_args = << >>
    /\ fmt_alloc = FALSE
    /\ fmt_state = "none"
    /\ fmt_message = << >>
    /\ fmt_raised = FALSE

(* a call log(level, format, args...) that passed the severity filter;
   fmt_alloc: the allocation of a std::string fails during this call *)
FormatCall ==
    /\ fmt_format \in Templates
    /\ fmt_args \in ArgLists
    /\ fmt_alloc \in BOOLEAN
    /\ fmt_state = "call"
    /\ fmt_message = << >>
    /\ fmt_raised = FALSE

\* a search that returns the last occurrence
FindLast(s) ==
    LET P == {i \in 1..(Len(s) - 1) : s[i] = "{" /\ s[i + 1] = "}"}
    IN IF P = {} THEN 0 ELSE CHOOSE i \in P : \A j \in P : j <= i

(* `format.find("{}")`: the first position, 0 for npos *)
Find(s) ==
    LET P == {i \in 1..(Len(s) - 1) : s[i] = "{" /\ s[i + 1] = "}"}
    IN IF P = {} THEN 0 ELSE CHOOSE i \in P : \A j \in P : i <= j

(* `catch (...)` of safe_append and of Logger::log *)
CatchesAll(exc) == exc # "none"

\* a handler that drops what the value left behind and writes no marker
SafeAppendSilent(v) == v.text

(* safe_append: what the stream holds after `oss << value` under
   `catch (...) { oss << "[FORMAT_ERROR]"; }` *)
SafeAppend(v) ==
    IF CatchesAll(v.throws) THEN Append(v.text, FormatErrorMark) ELSE v.text

(* format_recursive: the result written to oss, and the exception that
   leaves it (std::string::substr allocates) *)
RECURSIVE FormatRecursive(_, _, _)
FormatRecursive(format, args, alloc) ==
    IF args = << >> THEN [out |-> format, exc |-> "none"]
    ELSE LET pos == Find(format) IN
         IF pos # 0
         THEN IF alloc THEN [out |-> << >>, exc |-> "std"]
              ELSE LET rest == FormatRecursive(
                                   SubSeq(format, pos + 2, Len(format)),
                                   Tail(args), alloc)
                   IN [out |-> SubSeq(format, 1, pos - 1)
                                   \o SafeAppend(Head(args)) \o rest.out,
                       exc |-> rest.exc]
         ELSE [out |-> format, exc |-> "none"]

(* Logger::log after the filter: the try block around format_recursive and
   its `catch (...)`, which resets the stream and writes "[LOG_ERROR] "
   and the format *)
LogMessage(format, args, alloc) ==
    LET r == IF Len(args) > 0 THEN FormatRecursive(format, args, alloc)
             ELSE [out |-> format, exc |-> "none"]
    IN IF CatchesAll(r.exc)
       THEN [message |-> << LogErrorMark >> \o format, raised |-> FALSE]
       ELSE [message |-> r.out, raised |-> r.exc # "none"]

(* the LogEntry of the call is built with oss.str() as its message *)
LogRender ==
    /\ fmt_state = "call"
    /\ fmt_state' = "entry"
    /\ fmt_message' = LogMessage(fmt_format, fmt_args, fmt_alloc).message
    /\ fmt_raised' = LogMessage(fmt_format, fmt_args, fmt_alloc).raised
    /\ UNCHANGED << fmt_format, fmt_args, fmt_alloc, loggerVars, scopeVars, sinkVars >>

(* ------------------------------- FileSink ------------------------------ *)
(* One FileSink and the directory it writes to.  Only the worker thread    *)
(* calls a sink, so every call is one step.  A file is the sequence of the *)
(* lines it holds; a line is the number of the write call that made it and *)
(* log_line.length().                                                      *)

MaxFileSizes == {0, 2, 3}        \* max_file_size arguments
MaxFilesArgs == {0, 1, 2, 3}     \* max_files arguments
LineLens == {1, 2}               \* log_line.length() of a written line
NewlineBytes == {1, 2}           \* "\n" is stored as it is, or as "\r\n" by a
                                 \* text-mode stream of a _WIN32 build
TopGen == (CHOOSE m \in MaxFilesArgs : \A k \in MaxFilesArgs : k <= m) + 1

NoFile == [exists |-> FALSE, data |-> << >>]
EmptyFile == [exists |-> TRUE, data |-> << >>]
Line(id, len) == [id |-> id, len |-> len]
ExistingFiles == {NoFile, [exists |-> TRUE, data |-> << Line(0, 2) >>]}
NoCall == [op |-> "none", len |-> 0, open |-> FALSE, raised |-> FALSE]

(* what can fail in rotate_file: std::filesystem::remove or rename in the
   loop at index i, the rename of the live file, the reopening *)
Faults == [kind : {"none", "live", "open"}, i : {0}]
              \cup [kind : {"remove", "rename"}, i : 1..(TopGen - 1)]

(* the bytes a file with these lines takes on disk *)
RECURSIVE DiskBytes(_, _)
DiskBytes(data, nl) ==
    IF data = << >> THEN 0
    ELSE Head(data).len + (nl - 1) + DiskBytes(Tail(data), nl)

(* no FileSink has been constructed *)
NoFileSink ==
    /\ file_ = FALSE
    /\ current_size_ = 0
    /\ max_file_size_ = 0
    /\ max_files_ = 0
    /\ disk = [i \in 0..TopGen |-> NoFile]
    /\ newline = 1
    /\ written = << >>
    /\ rotations = 0
    /\ fs_calls = 0
    /\ fs_last = NoCall

(* FileSink::FileSink: `file_.open(filename_, std::ios::app);` creates the
   file when it is missing and may fail; when it is open, current_size_ is
   the position at the end of the file *)
FileSinkCtor ==
    /\ max_file_size_ \in MaxFileSizes
    /\ max_files_ \in MaxFilesArgs
    /\ newline \in NewlineBytes
    /\ \E old \in ExistingFiles, ok \in BOOLEAN :
         /\ file_ = ok
         /\ disk = [i \in 0..TopGen |->
                      IF i > 0 THEN NoFile
                      ELSE IF ok /\ ~old.exists THEN EmptyFile ELSE old]
         /\ current_size_ = IF ok THEN DiskBytes(old.data, newline) ELSE 0
         /\ written = old.data
    /\ rotations = 0
    /\ fs_calls = 0
    /\ fs_last = NoCall

\* a threshold that the size has to exceed
ExceededThreshold(size, max) == size > max

(* check_and_rotate: `if (current_size_ >= max_file_size_)` *)
ReachedThreshold(size, max) == size >= max

\* a loop body that deletes the generation instead of renaming it
RotateStepRemove(d, i, mf) == [d EXCEPT ![i] = NoFile]

(* one pass of the loop of rotate_file for an existing filename_.i, when
   nothing fails: `if (i == max_files_ - 1) remove(new_name);` then
   `rename(old_name, new_name);` (rename replaces an existing target) *)
RotateStep(d, i, mf) ==
    LET d1 == IF i = mf - 1 THEN [d EXCEPT ![i + 1] = NoFile] ELSE d
    IN [d1 EXCEPT ![i + 1] = d1[i], ![i] = NoFile]

(* `for (int i = max_files_ - 1; i > 0; --i)` from index i on; a failing
   std::filesystem call throws out of rotate_file and leaves what the
   earlier calls did *)
RECURSIVE RotateLoop(_, _, _, _)
RotateLoop(d, i, mf, fault) ==
    IF i <= 0 THEN [disk |-> d, thrown |-> FALSE]
    ELSE IF ~d[i].exists THEN RotateLoop(d, i - 1, mf, fault)
    ELSE IF i = mf - 1 /\ fault = [kind |-> "remove", i |-> i]
         THEN [disk |-> d, thrown |-> TRUE]
    ELSE IF fault = [kind |-> "rename", i |-> i]
         THEN [disk |-> IF i = mf - 1 THEN [d EXCEPT ![i + 1] = NoFile] ELSE d,
               thrown |-> TRUE]
    ELSE RotateLoop(RotateStep(d, i, mf), i - 1, mf, fault)

(* rotate_file on an open file: close, the loop, the live file becomes
   filename_.1, `file_.open(filename_, std::ios::out);` *)
RotateFile(d, mf, fault) ==
    LET r == RotateLoop(d, mf - 1, mf, fault) IN
    IF r.thrown THEN [disk |-> r.disk, open |-> FALSE, thrown |-> TRUE]
    ELSE IF r.disk[0].exists /\ fault.kind = "live"
         THEN [disk |-> r.disk, open |-> FALSE, thrown |-> TRUE]
    ELSE LET d2 == IF r.disk[0].exists
                   THEN [r.disk EXCEPT ![1] = r.disk[0], ![0] = NoFile]
                   ELSE r.disk
         IN IF fault.kind = "open"
            THEN [disk |-> d2, open |-> FALSE, thrown |-> FALSE]
            ELSE [disk |-> [d2 EXCEPT ![0] = EmptyFile], open |-> TRUE,
                  thrown |-> FALSE]

\* a sink that does not look at its handle
UnopenedNever(open) == FALSE

(* `if (!file_.is_open()) return;` *)
Unopened(open) == ~open

(* FileSink::write *)
FsWrite(len, fault) ==
    /\ fs_calls < MaxWrites
    /\ fs_calls' = fs_calls + 1
    /\ IF Unopened(file_)
       THEN /\ fs_last' = [op |-> "write", len |-> len, open |-> file_,
                           raised |-> FALSE]
            /\ UNCHANGED << file_, current_size_, disk, written, rotations >>
       ELSE LET line == Line(fs_calls + 1, len)
                d1 == [disk EXCEPT ![0] = [exists |-> TRUE,
                                           data |-> Append(@.data, line)]]
                size1 == current_size_ + len
            IN /\ written' = Append(written, line)
               /\ IF ReachedThreshold(size1, max_file_size_)
                  THEN LET r == RotateFile(d1, max_files_, fault) IN
                       /\ disk' = r.disk
                       /\ file_' = r.open
                       /\ current_size_' = IF r.thrown THEN size1 ELSE 0
                       /\ rotations' = rotations + 1
                       /\ fs_last' = [op |-> "write", len |-> len,
                                      open |-> file_, raised |-> r.thrown]
                  ELSE /\ disk' = d1
                       /\ current_size_' = size1
                       /\ fs_last' = [op |-> "write", len |-> len,
                                      open |-> file_, raised |-> FALSE]
                       /\ UNCHANGED << file_, rotations >>
    /\ UNCHANGED << max_file_size_, max_files_, newline, loggerVars, scopeVars, fmtVars >>

(* FileSink::flush: `if (file_.is_open()) file_.flush();` *)
FsFlush ==
    /\ fs_calls < MaxWrites
    /\ fs_calls' = fs_calls + 1
    /\ fs_last' = [op |-> "flush", len |-> 0, open |-> file_, raised |-> FALSE]
    /\ UNCHANGED << file_, current_size_, disk, written, rotations,
                    max_file_size_, max_files_, newline, loggerVars, scopeVars,
                    fmtVars >>

FileNext ==
    \/ \E len \in LineLens, fault \in Faults : FsWrite(len, fault)
    \/ FsFlush

FileInit == LoggerInit /\ FileSinkCtor /\ NoFormat /\ NoScope

SpecFile == FileInit /\ [][FileNext]_vars

(* ------------------------------ the system ----------------------------- *)

Init == LoggerInit /\ NoFileSink /\ NoFormat /\ NoScope

FormatInit == LoggerInit /\ NoFileSink /\ FormatCall /\ NoScope

SpecFormat == FormatInit /\ [][LogRender]_vars


ProducerNext ==
    \E p \in Producers :
        \/ \E lvl \in EmitLevels : Log(p, lvl)
        \/ LogEntry(p)

InitNext == \E t \in Threads : CallOnce(t) \/ OnceReturn(t)

AppNext ==
    \/ AddSink
    \/ ClearSinks
    \/ MutateSinks
    \/ \E l \in SetLevels : SetLevel(l)
    \/ \E n \in QueueSizes : SetMaxQueueSize(n)

WorkerNext ==
    \/ WorkerLoopTest
    \/ WorkerLock
    \/ WorkerWaitEnter
    \/ WorkerWake
    \/ WorkerEntry
    \/ WorkerWrite
    \/ WorkerFlush
    \/ WorkerFinalLock
    \/ WorkerFinalHead
    \/ WorkerFinalWrite
    \/ WorkerFinalFlush

DtorNext == DtorStore \/ DtorNotify \/ DtorJoin

Next == ProducerNext \/ InitNext \/ AppNext \/ WorkerNext \/ SpuriousWakeup \/ DtorNext

Spec == Init /\ [][Next]_vars

(* The queue and everything that adds to it, removes from it or resizes it:
   the producers, set_max_queue_size, the worker's batch drain and its final
   drain, and the destructor.  No sink is registered in these behaviours, so
   the worker's loops over sinks_ have no iteration. *)
QueueNext ==
    \/ ProducerNext
    \/ InitNext
    \/ \E n \in QueueSizes : SetMaxQueueSize(n)
    \/ WorkerLoopTest
    \/ WorkerLock
    \/ WorkerWaitEnter
    \/ WorkerWake
    \/ WorkerEntry
    \/ WorkerFinalLock
    \/ WorkerFinalHead
    \/ SpuriousWakeup
    \/ DtorNext

SpecQueue == Init /\ [][QueueNext]_vars

(* The calling threads alone: every call that can reach ensure_initialized
   (emits, add_sink, clear_sinks), and set_level, which decides whether an
   emit reaches it.  The worker thread, once created, is not scheduled: it
   neither reads nor writes init_flag_, initialized_ or a caller's position. *)
StartNext ==
    \/ ProducerNext
    \/ InitNext
    \/ AddSink
    \/ ClearSinks
    \/ MutateSinks
    \/ \E l \in SetLevels : SetLevel(l)

SpecStart == Init /\ [][StartNext]_vars

(* The worker with a long queue: add_sink was called once, which started
   the worker, and one producer has emitted while the worker thread had not
   yet run.  The lengths are those around the batch limit.  The application
   thread may still call add_sink or clear_sinks. *)
QueueLens == {0, 1, BatchCap - 1, BatchCap, BatchCap + 1, BatchCap + 2}
QueuedEntry(k) == [p |-> 1, n |-> k, lvl |-> ERROR]

BatchInit ==
    /\ \E len \in QueueLens :
         /\ log_queue_ = [k \in 1..len |-> QueuedEntry(k)]
         /\ pushed = [k \in 1..len |-> QueuedEntry(k)]
         /\ emitLog = {[p |-> 1, n |-> k, lvl |-> ERROR, min |-> DEBUG] :
                          k \in 1..len}
    /\ sinks_ = << 1 >>
    /\ writes = << << >> >>
    /\ regAt = << 0 >>
    /\ appOps = 1
    /\ min_level_ = DEBUG
    /\ queue_mutex_ = "free"
    /\ running_ = TRUE
    /\ initialized_ = TRUE
    /\ init_flag_ = "done"
    /\ workersCreated = 1
    /\ worker_pc = "loop_test"
    /\ max_queue_size_ = DefaultMaxQueue
    /\ pc = [t \in Threads |-> "idle"]
    /\ cur = [p \in Producers |-> NoEntry]
    /\ app_op = "none"
    /\ batch = << >>
    /\ bi = 0
    /\ view = << >>
    /\ si = 0
    /\ dtor_pc = "idle"
    /\ proc = "running"
    /\ evicted = {}
    /\ runStart = 0
    /\ runOK = TRUE
    /\ ubPop = FALSE
    /\ events = << >>
    /\ taken = << >>
    /\ NoFileSink
    /\ NoFormat
    /\ NoScope

BatchNext ==
    \/ WorkerNext
    \/ SpuriousWakeup
    \/ DtorNext
    \/ AddSink
    \/ ClearSinks
    \/ MutateSinks

SpecBatch == BatchInit /\ [][BatchNext]_vars

(* The producers with scopes: ScopeLogger objects are constructed and
   destroyed, plain emits are made between, and the application changes the
   minimum level.  The worker thread, once created, is not scheduled. *)
ScopeNext ==
    \/ \E p \in Producers, lvl \in EmitLevels : ScopeEnter(p, lvl)
    \/ \E p \in Producers : ScopeExit(p)
    \/ ProducerNext
    \/ InitNext
    \/ \E l \in SetLevels : SetLevel(l)

SpecScope == Init /\ [][ScopeNext]_vars

(* The scheduler runs every thread that can take a step; nothing obliges a
   producer or the application to make another call, and a wait is not
   obliged to return spuriously. *)
FairSpec == Spec /\ WF_vars(WorkerNext) /\ WF_vars(DtorNext)

(* ------------------------------ properties ----------------------------- *)

\* the entries pushed since the queue was last drained or resized
Run == SubSeq(pushed, runStart + 1, Len(pushed))
LastN(s, n) == SubSeq(s, Len(s) - n + 1, Len(s))
Pos(s, x) == CHOOSE i \in 1..Len(s) : s[i] = x
Occurrences(s, x) == Cardinality({i \in 1..Len(s) : s[i] = x})
EntryOf(e) == [p |-> e.p, n |-> e.n, lvl |-> e.lvl]
InSinkCall == worker_pc \in {"write", "flush", "final_write", "final_flush"}

C2_NoSilentLoss ==
    (dtor_pc = "done" /\ ~ubPop) =>
        \A k \in 1..Len(pushed) :
            pushed[k] \notin evicted =>
                \A s \in Range(sinks_) :
                    regAt[s] < k => pushed[k] \in Range(writes[s])

\* C3 (shutdown terminates): once the destructor has stored running_ = false
\* and called notify_all, the worker ends and join returns (or the process
\* has been aborted by an earlier failure).
C3_ShutdownTerminates ==
    (dtor_pc = "join") ~> (dtor_pc = "done" \/ proc # "running")

\* C3, as a state predicate: after the destructor's notify_all the worker is
\* never blocked in the condition wait.
C3_NoLostWakeup == ~(dtor_pc = "join" /\ worker_pc = "waiting")

C5_SinkFailureIsolated == proc # "terminated"

\* C6 (producers never wait on sink I/O): while the worker is in a sink's
\* write or flush it does not hold queue_mutex_.
C6_NoLockDuringSinkCall == InSinkCall => queue_mutex_ # "worker"

\* C7 (registry exclusive access): add_sink / clear_sinks is never inside the
\* mutation of sinks_ while the worker is inside a loop over sinks_.
C7_RegistryExclusive == ~(pc[App] = "mutating" /\ InSinkCall)

\* C8 (severity filter): an emit below the minimum severity it saw inserts
\* nothing and reaches no sink; an emit at or above it inserts exactly one
\* entry (inserted, or being carried into the queue by its caller).
C8_Filter ==
    \A e \in emitLog :
        LET r == EntryOf(e)
            carried == IF cur[e.p] = r THEN 1 ELSE 0
        IN IF e.lvl < e.min
           THEN /\ Occurrences(pushed, r) = 0
                /\ carried = 0
                /\ \A s \in 1..Len(writes) : r \notin Range(writes[s])
           ELSE Occurrences(pushed, r) + carried = 1

\* minimum WARN, one DEBUG emit and one ERROR emit: the sink has received
\* the ERROR entry and nothing else
C8_Witness ==
    \E d, e \in emitLog :
        /\ d.min = WARN /\ d.lvl = DEBUG
        /\ e.min = WARN /\ e.lvl = ERROR
        /\ \E s \in 1..Len(writes) : writes[s] = << EntryOf(e) >>

\* C9 as stated: once any emit call has returned the worker has been
\* started, and at most one worker is ever created.
C9_AnyEmitStartsWorker ==
    /\ workersCreated <= 1
    /\ (\E e \in emitLog : cur[e.p] # EntryOf(e)) => workersCreated = 1

\* C9, amended: at most one worker thread is ever created, under any
\* interleaving of first calls; every call that has passed
\* ensure_initialized (an emit that passed the severity filter, add_sink,
\* clear_sinks) finds the worker created.
PassedInit ==
    \/ pushed # << >>
    \/ sinks_ # << >>
    \/ \E t \in Threads : pc[t] \in {"once_body", "push", "mutating"}

C9_ExactlyOnce ==
    /\ workersCreated <= 1
    /\ PassedInit => workersCreated = 1
    /\ (workersCreated = 0) <=> (worker_pc = "none")

\* two first calls race: one runs the lambda, the other is held in call_once
C9_Witness ==
    /\ workersCreated = 1
    /\ \E t, u \in Threads : pc[t] = "once_body" /\ pc[u] = "call_once"

\* C10 (bounded queue): the queue never holds more entries than
\* max_queue_size_, and pop() is never called on an empty queue.
C10_Bounded == Len(log_queue_) <= max_queue_size_ /\ ~ubPop

(* ------------------------- FileSink properties ------------------------- *)

Generations == {i \in 1..TopGen : disk[i].exists}

(* the lines of filename_.k, ..., filename_.1, in this order *)
RECURSIVE GenData(_, _)
GenData(d, k) == IF k <= 0 THEN << >> ELSE d[k].data \o GenData(d, k - 1)

OnDisk == GenData(disk, max_files_) \o disk[0].data
IsSuffix(s, t) == Len(s) <= Len(t) /\ s = SubSeq(t, Len(t) - Len(s) + 1, Len(t))

(* this step is a call of FileSink::write that found the file open *)
WriteOnOpen == fs_calls' = fs_calls + 1 /\ fs_last'.op = "write" /\ file_
WrittenLine == Line(fs_calls + 1, fs_last'.len)

\* C11 (rotation retention bound): the rotated generations on disk are among
\* filename_.1 .. filename_.<max_files_>, so there are at most max_files_.
C11_RetentionBound ==
    /\ Generations \subseteq 1..max_files_
    /\ Cardinality(Generations) <= max_files_

\* C12 (rotation preserves recent history): filename_.<max_files_> ..
\* filename_.1 followed by the live file is a contiguous suffix of everything
\* written, in write order, and holds at least the most recent
\* max_files_ * max_file_size_ bytes written.
C12_HistoryPreserved ==
    /\ IsSuffix(OnDisk, written)
    /\ DiskBytes(OnDisk, newline)
           >= Min(DiskBytes(written, newline), max_files_ * max_file_size_)

\* two rotations have shifted the generations and the oldest lines are gone
C12_Witness ==
    /\ rotations >= 2
    /\ max_files_ >= 1
    /\ Len(OnDisk) < Len(written)
    /\ disk[1].exists

\* C13 as stated: after a write on an open file, if the tracked size reached
\* the threshold exactly one rotation ran, the previously live file is
\* filename_.1, the live file is empty and the tracked size is 0; otherwise
\* no rotation ran and no file was renamed.
C13_RotationTrigger ==
    [][WriteOnOpen =>
         IF current_size_ + fs_last'.len >= max_file_size_
         THEN /\ rotations' = rotations + 1
              /\ disk'[1] = [exists |-> TRUE,
                             data |-> Append(disk[0].data, WrittenLine)]
              /\ disk'[0] = EmptyFile
              /\ current_size_' = 0
         ELSE /\ rotations' = rotations
              /\ \A i \in 1..TopGen : disk'[i] = disk[i]
              /\ disk'[0].data = Append(disk[0].data, WrittenLine)]_vars

\* C13, amended: after a write on an open file, if the tracked size reached
\* the threshold exactly one rotation ran; when every file-system call of
\* that rotation succeeded the previously live file is filename_.1, the live
\* file is empty and the tracked size is 0, when a remove or rename failed
\* the write raises and the handle stays closed, and when only the reopening
\* failed the handle stays closed with tracked size 0.  If the tracked size
\* stayed below the threshold no rotation ran and no file was renamed.
C13_RotationTriggerNoFault ==
    [][WriteOnOpen =>
         IF current_size_ + fs_last'.len >= max_file_size_
         THEN /\ rotations' = rotations + 1
              /\ (file_' /\ ~fs_last'.raised) =>
                    /\ disk'[1] = [exists |-> TRUE,
                                   data |-> Append(disk[0].data, WrittenLine)]
                    /\ disk'[0] = EmptyFile
                    /\ current_size_' = 0
              /\ fs_last'.raised => ~file_'
              /\ (~file_' /\ ~fs_last'.raised) =>
                    /\ current_size_' = 0
                    /\ disk'[1] = [exists |-> TRUE,
                                   data |-> Append(disk[0].data, WrittenLine)]
                    /\ ~disk'[0].exists
         ELSE /\ rotations' = rotations
              /\ file_' /\ ~fs_last'.raised
              /\ \A i \in 1..TopGen : disk'[i] = disk[i]
              /\ disk'[0].data = Append(disk[0].data, WrittenLine)]_vars

\* the last call was a write on an open file that rotated for the second
\* time without a failure
C13_Witness ==
    /\ fs_last.op = "write" /\ fs_last.open /\ ~fs_last.raised
    /\ rotations >= 2
    /\ file_ /\ current_size_ = 0
    /\ disk[0] = EmptyFile /\ disk[1].exists

\* C18 (unopened file sink is a no-op): a write or flush that finds the
\* handle not open returns without raising and leaves the tracked size, the
\* handle and every file unchanged.
C18_UnopenedNoOp ==
    [][(fs_calls' = fs_calls + 1 /\ ~file_) =>
          /\ ~fs_last'.raised
          /\ UNCHANGED << current_size_, disk, file_, rotations, written >>]_vars

\* a write found the handle closed after a rotation had closed it
C18_Witness ==
    /\ fs_last.op = "write" /\ ~fs_last.open
    /\ rotations >= 1
    /\ ~file_

\* C19 (size tracking invariant): while the handle is open the tracked size
\* is at least the number of bytes in the live file.
C19_SizeUpperBound ==
    file_ => current_size_ >= DiskBytes(disk[0].data, newline)

(* ------------------------ formatting properties ------------------------ *)

(* what an argument leaves in the message *)
Rendering(v) ==
    IF v.throws = "none" THEN v.text ELSE Append(v.text, FormatErrorMark)

(* the template read character by character, each "{}" replaced by the next
   argument while there is one *)
RECURSIVE Substituted(_, _, _)
Substituted(t, i, args) ==
    IF i > Len(t) THEN << >>
    ELSE IF args # << >> /\ i < Len(t) /\ t[i] = "{" /\ t[i + 1] = "}"
         THEN Rendering(Head(args)) \o Substituted(t, i + 2, Tail(args))
         ELSE << t[i] >> \o Substituted(t, i + 1, args)

RECURSIVE PlaceholderCount(_, _)
PlaceholderCount(t, i) ==
    IF i >= Len(t) THEN 0
    ELSE IF t[i] = "{" /\ t[i + 1] = "}" THEN 1 + PlaceholderCount(t, i + 2)
         ELSE PlaceholderCount(t, i + 1)

ArgsUsed == Min(Len(fmt_args), PlaceholderCount(fmt_format, 1))
AllocFails == fmt_alloc /\ ArgsUsed >= 1
ArgRaises == \E i \in 1..ArgsUsed : fmt_args[i].throws # "none"

\* C15 as stated: when rendering the message fails, the call does not raise
\* and the record carries the marker followed by the unmodified template.
C15_FallbackRawTemplate ==
    (fmt_state = "entry" /\ (AllocFails \/ ArgRaises)) =>
        /\ ~fmt_raised
        /\ fmt_message = << LogErrorMark >> \o fmt_format

\* C15, amended: a rendering failure never raises to the caller; when an
\* exception leaves the substitution itself the message is "[LOG_ERROR] "
\* followed by the unmodified template, and when an argument raises the
\* message is the substituted template with what the argument wrote and
\* "[FORMAT_ERROR]" in that argument's place.
C15_FallbackMarkers ==
    fmt_state = "entry" =>
        /\ ~fmt_raised
        /\ fmt_message = IF AllocFails
                         THEN << LogErrorMark >> \o fmt_format
                         ELSE Substituted(fmt_format, 1, fmt_args)

\* the second of two arguments raised after writing: the first is rendered,
\* the second leaves its text and the marker
C15_Witness ==
    /\ fmt_state = "entry" /\ ~fmt_alloc
    /\ fmt_format = << "{", "}", "{", "}" >>
    /\ fmt_args = << [text |-> << "v" >>, throws |-> "none"],
                     [text |-> << "w" >>, throws |-> "other"] >>
    /\ fmt_message = << "v", "w", FormatErrorMark >>

\* C16 (placeholder substitution): the message is the template with its "{}"
\* replaced left to right by the arguments in order; surplus arguments are
\* ignored and placeholders without an argument stay as they are.
C16_Substitution ==
    (/\ fmt_state = "entry"
     /\ ~AllocFails
     /\ \A i \in 1..Len(fmt_args) : fmt_args[i].throws = "none")
        => fmt_message = Substituted(fmt_format, 1, fmt_args)

\* one argument for two placeholders, and an argument whose text is "{}"
C16_Witness ==
    /\ fmt_state = "entry"
    /\ fmt_format = << "{", "}", "{", "}" >>
    /\ fmt_args = << [text |-> << "{", "}" >>, throws |-> "none"] >>
    /\ fmt_message = << "{", "}", "{", "}" >>

(* ------------------------- dispatch properties ------------------------- *)

BatchIndex(e) == Pos(batch, e)

(* every sink of ss written the entry e in turn; every sink of ss flushed *)
ExpectedWrites(e, ss) == [i \in 1..Len(ss) |-> SinkEvent("write", ss[i], e)]
ExpectedFlushes(ss) == [i \in 1..Len(ss) |-> SinkEvent("flush", ss[i], NoEntry)]

BatchTaken == worker_pc \in {"lock", "woken"} /\ worker_pc' = "entry"
SinkCalled == Len(events') = Len(events) + 1
RecordDone == worker_pc = "write" /\ worker_pc' = "entry"
IterationEnds == worker_pc \in {"entry", "flush"} /\ worker_pc' = "loop_test"

\* C17 (batch dispatch): an iteration takes the first min(queue length, 100)
\* entries from the head of the queue, in order, as its batch; every call of
\* a sink goes to a sink of the registry as it is at that call; when the
\* loop is done with an entry, the last calls are the writes of that entry
\* to every registered sink in registration order; the entries are written
\* in batch order; the iteration ends with one flush of every registered
\* sink, in order, and has made no other flush.
C17_BatchDispatch ==
    [][/\ BatchTaken =>
            /\ Len(batch') = Min(Len(log_queue_), BatchCap)
            /\ batch' \o log_queue_' = log_queue_
       /\ SinkCalled =>
            /\ si <= Len(sinks_)
            /\ events'[Len(events')].sink = sinks_[si]
       /\ RecordDone =>
            /\ Len(events') >= Len(sinks_')
            /\ LastN(events', Len(sinks_')) = ExpectedWrites(batch[bi], sinks_')
       /\ IterationEnds =>
            /\ Len(events') >= Len(sinks_')
            /\ LastN(events', Len(sinks_')) = ExpectedFlushes(sinks_')
            /\ \A i \in 1..(Len(events') - Len(sinks_')) :
                   /\ events'[i].op = "write"
                   /\ \A j \in 1..i :
                          BatchIndex(events'[j].entry)
                              <= BatchIndex(events'[i].entry)]_vars

\* a queue of BatchCap + 2 entries: the iteration that took BatchCap of them
\* has written each to the sink and flushed it, and two are still queued
C17_Witness ==
    /\ worker_pc = "loop_test"
    /\ Len(taken) = BatchCap
    /\ Len(log_queue_) = 2
    /\ Len(events) = BatchCap + 1
    /\ events[Len(events)] = SinkEvent("flush", 1, NoEntry)

\* C20 (no duplicate delivery): no entry is written to a sink twice; every
\* entry that was pushed is in the queue, or was taken by the worker (into a
\* batch or in the final drain), or was evicted, exactly one of the three and
\* once; an evicted entry is written to no sink.
C20_NoDuplicateDelivery ==
    /\ \A s \in 1..Len(writes) : \A e \in Range(writes[s]) :
           /\ Occurrences(writes[s], e) = 1
           /\ e \notin evicted
    /\ \A e \in Range(pushed) :
           Occurrences(log_queue_, e) + Occurrences(taken, e)
               + (IF e \in evicted THEN 1 ELSE 0) = 1

(* --------------------------- scope properties -------------------------- *)

ScopeEvents == 1..Len(scopeLog)
\* the emit call of event i has returned
EventDone(i) ==
    \/ pc[scopeLog[i].p] = "idle"
    \/ \E e \in emitLog : e.p = scopeLog[i].p /\ e.n > scopeLog[i].n
RecordOf(ev) == [p |-> ev.p, n |-> ev.n, lvl |-> ev.lvl]
Enqueued(i) == RecordOf(scopeLog[i]) \in Range(pushed)
EnqueuedAt(i) == Pos(pushed, RecordOf(scopeLog[i]))
EnterOf(j) == CHOOSE i \in ScopeEvents :
                  scopeLog[i].kind = "enter" /\ scopeLog[i].id = scopeLog[j].id
Exits == {j \in ScopeEvents : scopeLog[j].kind = "exit"}

(* one enter call when a scope is constructed and one exit call when it is
   destroyed, by the same thread at the same level; the exit reports the time
   since the scope's own construction; enter is enqueued before exit, and the
   exit of a scope before the exit of a scope of the thread that encloses it *)
ScopeDiscipline ==
    /\ \A i, j \in ScopeEvents :
          (scopeLog[i].id = scopeLog[j].id /\ scopeLog[i].kind = scopeLog[j].kind)
              => i = j
    /\ \A p \in Producers : \A k \in 1..Len(scopes[p]) :
          /\ \E i \in ScopeEvents :
                /\ scopeLog[i].kind = "enter"
                /\ scopeLog[i].id = scopes[p][k].id
                /\ scopeLog[i].lvl = scopes[p][k].level_
                /\ scopeLog[i].p = p
          /\ \A j \in Exits : scopeLog[j].id # scopes[p][k].id
    /\ \A j \in Exits :
          /\ \E i \in ScopeEvents :
                scopeLog[i].kind = "enter" /\ scopeLog[i].id = scopeLog[j].id
          /\ EnterOf(j) < j
          /\ scopeLog[EnterOf(j)].p = scopeLog[j].p
          /\ scopeLog[EnterOf(j)].lvl = scopeLog[j].lvl
          /\ scopeLog[j].ms = scopeLog[j].t - scopeLog[EnterOf(j)].t
          /\ (Enqueued(EnterOf(j)) /\ Enqueued(j))
                => EnqueuedAt(EnterOf(j)) < EnqueuedAt(j)
    /\ \A i \in ScopeEvents \ Exits : \A j \in Exits :
          \* scope i was constructed inside the scope that j closes
          (scopeLog[i].p = scopeLog[j].p /\ EnterOf(j) < i /\ i < j)
              => \E k \in Exits :
                    /\ scopeLog[k].id = scopeLog[i].id
                    /\ k < j
                    /\ (Enqueued(k) /\ Enqueued(j))
                          => EnqueuedAt(k) < EnqueuedAt(j)

\* C14 (scope timer pairing), as stated: every ScopeLogger puts one enter
\* record in the queue when it is constructed and one exit record at the
\* same level when it is destroyed, enter before exit, inner exit before
\* outer exit, each exit timed from the scope's own start.
C14_ScopePairing ==
    /\ ScopeDiscipline
    /\ \A i \in ScopeEvents : EventDone(i) => Enqueued(i)

\* C14, amended: every ScopeLogger makes one enter call when it is
\* constructed and one exit call at the same level when it is destroyed; a
\* call puts its record in the queue exactly when the level is not below the
\* minimum level at the call; order and timing as stated.
C14_ScopePairingFiltered ==
    /\ ScopeDiscipline
    /\ \A i \in ScopeEvents :
          /\ Enqueued(i) => ~Filtered(scopeLog[i].lvl, scopeLog[i].min)
          /\ (EventDone(i) /\ ~Filtered(scopeLog[i].lvl, scopeLog[i].min))
                => Enqueued(i)

\* two nested scopes of one producer, constructed and destroyed, all four
\* records in the queue, the outer one started after the clock's epoch and
\* ran longer than the inner one
C14_Witness ==
    /\ Len(scopeLog) = 4
    /\ \A i \in ScopeEvents : scopeLog[i].p = 1 /\ Enqueued(i)
    /\ scopes[1] = << >>
    /\ scopeLog[3].id = scopeLog[2].id
    /\ scopeLog[4].id = scopeLog[1].id
    /\ scopeLog[1].t > 0
    /\ scopeLog[3].ms < scopeLog[4].ms

(* ------------------------- start-up properties ------------------------- *)

\* the step is a call of Logger::log that returned at the severity filter
FilteredEmit ==
    \E e \in emitLog' \ emitLog : Filtered(e.lvl, e.min)

\* C21 (worker exists before any record is queued): whenever the queue is
\* not empty, initialized_ is true and the worker thread has been created;
\* a call of Logger::log that the severity filter turns away starts nothing:
\* it leaves initialized_, the once flag, running_, the worker and the
\* caller's position as they were and builds no entry.
C21_WorkerBeforeQueue ==
    /\ [](log_queue_ # << >> =>
             initialized_ /\ workersCreated >= 1 /\ worker_pc # "none")
    /\ [][FilteredEmit =>
             /\ UNCHANGED << initialized_, init_flag_, running_, worker_pc,
                             workersCreated, log_queue_, pushed >>
             /\ pc' = pc
             /\ cur' = cur]_vars

\* after set_level a producer's first emit was filtered and its second one
\* is in the queue, and no other thread has called the logger's registry
C21_Witness ==
    /\ log_queue_ # << >>
    /\ initialized_
    /\ regAt = << >>
    /\ pc[App] = "idle"
    /\ \E e \in emitLog :
          /\ Filtered(e.lvl, e.min)
          /\ \E q \in Range(log_queue_) : q.p = e.p /\ q.n > e.n

====
